---- MODULE Spec2Model ----
(***************************************************************************)
(* KOA frailty risk predictor (src/app.py, a Streamlit script).            *)
(*                                                                         *)
(* Every browser session runs the script top to bottom in a thread of its  *)
(* own; submitting the form reruns it with submitted = True.  The scorer,  *)
(* the feature schema and the explainer come from two functions decorated  *)
(* with st.cache_resource and are shared by all sessions.                  *)
(*                                                                         *)
(* Renderings used below:                                                  *)
(*  - the radio options and the display labels are Chinese strings in the  *)
(*    source; they are written here in ASCII, one string per source string;*)
(*  - the float inputs (bmi, crea, cysc, wbc) are integers in hundredths;  *)
(*    a '.1f' label shows tenths; age and platelet are integers;           *)
(*  - a probability is an integer in units of 1e-7, so that 0.8000001 and  *)
(*    0.3000001 are values.                                                *)
(***************************************************************************)
EXTENDS Integers, Sequences, FiniteSets

VARIABLES
    xgb_model2_json,        \* the model file: what the ensemble answers
    feature_names_pkl,      \* the pickled feature schema
    cache,                  \* st.cache_resource: function name -> instance id, 0 when absent
    lock,                   \* st.cache_resource: function name -> session computing it, 0 when free
    loaded,                 \* every (model, feature_names) pair load_model_and_features built
    explainers,             \* every TreeExplainer create_explainer built
    pc,                     \* where each session's script run is
    fn,                     \* the cached function a session is calling
    model,                  \* script global: instance id, 0 when unbound
    feature_names,          \* script global: instance id of the shared list
    explainer,              \* script global: instance id
    form,                   \* the widgets' values
    submitted,
    input_data,
    input_df,
    frail_prob,
    pred_label,
    shap_values,
    expected_value,
    shap_value,
    display_feature_names,
    out                     \* what the run has put on the page, in order

vars == <<xgb_model2_json, feature_names_pkl, cache, lock, loaded, explainers,
          pc, fn, model, feature_names, explainer, form, submitted,
          input_data, input_df, frail_prob, pred_label, shap_values,
          expected_value, shap_value, display_feature_names, out>>

(***************************************************************************)
(* Bounds.                                                                 *)
(***************************************************************************)
NumSessions == 2
MaxSchemaLen == 2

Sessions == 1..NumSessions

(***************************************************************************)
(* The form (lines 70-83).                                                 *)
(***************************************************************************)
GenderOptions == <<"female", "male">>                 \* line 70
YesNoOptions == <<"no", "yes">>                       \* lines 72, 74
ActivityOptions == <<"low", "medium", "high">>        \* line 75
ComplicationOptions == <<"none", "one", "two_or_more">>   \* line 76
DailyActivityOptions == <<"unlimited", "limited">>    \* line 77
WalkSpeedOptions == <<"lt_1mps", "ge_1mps">>          \* line 78
SitStandOptions == <<"lt_12s", "ge_12s">>             \* line 79

Range(q) == {q[i] : i \in DOMAIN q}

\* The numeric inputs as entered: the widgets' defaults, a second patient
\* whose floats are not multiples of 0.1, and the lower ends of the ranges.
NumericProfiles ==
    { [age |-> 60, bmi |-> 2400, platelet |-> 200, crea |-> 7000, cysc |-> 100, wbc |-> 600],
      [age |-> 73, bmi |-> 2734, platelet |-> 151, crea |-> 8826, cysc |-> 142, wbc |-> 708],
      [age |-> 0,  bmi |-> 1000, platelet |-> 0,   crea |-> 0,    cysc |-> 0,   wbc |-> 0] }

MakeForm(g, sm, fa, act, comp, da, ws, ss, num) ==
    [gender |-> g, age |-> num.age, smoking |-> sm, bmi |-> num.bmi, fall |-> fa,
     activity |-> act, complication |-> comp, daily_activity |-> da,
     walk_speed |-> ws, sit_stand |-> ss, platelet |-> num.platelet,
     crea |-> num.crea, cysc |-> num.cysc, wbc |-> num.wbc]

\* Every radio at its first option, every number at its default value.
DefaultForm ==
    MakeForm("female", "no", "no", "low", "none", "unlimited", "lt_1mps", "lt_12s",
             [age |-> 60, bmi |-> 2400, platelet |-> 200, crea |-> 7000, cysc |-> 100, wbc |-> 600])

AllForms ==
    { MakeForm(g, sm, fa, act, comp, da, ws, ss, num) :
        g \in Range(GenderOptions), sm \in Range(YesNoOptions), fa \in Range(YesNoOptions),
        act \in Range(ActivityOptions), comp \in Range(ComplicationOptions),
        da \in Range(DailyActivityOptions), ws \in Range(WalkSpeedOptions),
        ss \in Range(SitStandOptions), num \in NumericProfiles }

\* Three patients: the defaults, every radio at its last option, and the zeros.
FormProfiles ==
    { DefaultForm,
      MakeForm("male", "yes", "yes", "high", "two_or_more", "limited", "ge_1mps", "ge_12s",
               [age |-> 73, bmi |-> 2734, platelet |-> 151, crea |-> 8826, cysc |-> 142, wbc |-> 708]),
      MakeForm("female", "yes", "no", "medium", "one", "limited", "lt_1mps", "ge_12s",
               [age |-> 0, bmi |-> 1000, platelet |-> 0, crea |-> 0, cysc |-> 0, wbc |-> 0]) }

(***************************************************************************)
(* Feature encoder (lines 91-117).                                         *)
(***************************************************************************)
\* The keys of input_data, in the dict's order.
InputKeys ==
    <<"gender", "age", "smoking", "bmi", "fall", "PA_high", "PA_medium", "PA_low",
      "Complications_0", "Complications_1", "Complications_2", "ADL",
      "Walking_speed", "FTSST", "bl_plt", "bl_crea", "bl_cysc", "bl_wbc">>

IndicatorInverted(selected, option) == IF selected # option THEN 1 ELSE 0

\* 1 if <selected> == "<option>" else 0
Indicator(selected, option) == IF selected = option THEN 1 ELSE 0

InputData(f) ==
    [gender          |-> Indicator(f.gender, "female"),
     age             |-> f.age,
     smoking         |-> Indicator(f.smoking, "yes"),
     bmi             |-> f.bmi,
     fall            |-> Indicator(f.fall, "yes"),
     PA_high         |-> Indicator(f.activity, "high"),
     PA_medium       |-> Indicator(f.activity, "medium"),
     PA_low          |-> Indicator(f.activity, "low"),
     Complications_0 |-> Indicator(f.complication, "none"),
     Complications_1 |-> Indicator(f.complication, "one"),
     Complications_2 |-> Indicator(f.complication, "two_or_more"),
     ADL             |-> Indicator(f.daily_activity, "limited"),
     Walking_speed   |-> Indicator(f.walk_speed, "ge_1mps"),
     FTSST           |-> Indicator(f.sit_stand, "ge_12s"),
     bl_plt          |-> f.platelet,
     bl_crea         |-> f.crea,
     bl_cysc         |-> f.cysc,
     bl_wbc          |-> f.wbc]

\* pd.DataFrame([input_data]): one row, one column per key, in the dict's order.
DataFrame(d) == [i \in 1..Len(InputKeys) |-> [name |-> InputKeys[i], val |-> d[InputKeys[i]]]]

Columns(df) == {df[i].name : i \in DOMAIN df}

FillColumnUnguarded(df, feature) ==
    IF feature \in Columns(df)
    THEN [i \in DOMAIN df |-> IF df[i].name = feature THEN [name |-> feature, val |-> 0] ELSE df[i]]
    ELSE Append(df, [name |-> feature, val |-> 0])

\* if feature not in input_df.columns: input_df[feature] = 0
FillColumn(df, feature) ==
    IF feature \notin Columns(df) THEN Append(df, [name |-> feature, val |-> 0]) ELSE df

RECURSIVE ZeroFill(_, _)
\* for feature in feature_names: ...
ZeroFill(df, names) ==
    IF names = <<>> THEN df ELSE ZeroFill(FillColumn(df, Head(names)), Tail(names))

SelectColumnsSkipped(df, names) == df

\* input_df[feature_names]: the columns labelled names[1], names[2], ..., in
\* that order; a label listed twice is taken twice.  Every label of names is
\* a column of df here, and df's own labels are distinct.
SelectColumns(df, names) ==
    [i \in 1..Len(names) |-> df[CHOOSE j \in DOMAIN df : df[j].name = names[i]]]

Encode(f, names) == SelectColumns(ZeroFill(DataFrame(InputData(f)), names), names)

(***************************************************************************)
(* Inference and risk tier (lines 119-142).                                *)
(***************************************************************************)
\* The thresholds, in units of 1e-7.
LabelThreshold == 5000000
HighThreshold == 8000000
MediumThreshold == 3000000

\* What 1 / (1 + exp(-margin)) can come to: the ends of [0, 1], each
\* threshold, and the next value above each threshold.
Probabilities ==
    {0, 1500000, 3000000, 3000001, 5000000, 5000001, 8000000, 8000001, 10000000}

\* 1 if frail_prob > 0.5 else 0
PredLabel(p) == IF p > LabelThreshold THEN 1 ELSE 0

StratifyInclusive(p) ==
    IF p >= HighThreshold THEN "HIGH" ELSE IF p >= MediumThreshold THEN "MEDIUM" ELSE "LOW"

\* if frail_prob > 0.8: ... elif frail_prob > 0.3: ... else: ...
Stratify(p) ==
    IF p > HighThreshold THEN "HIGH" ELSE IF p > MediumThreshold THEN "MEDIUM" ELSE "LOW"

\* The banner and the three recommendation lines a tier puts on the page.
TierOutput(tier) ==
    <<[kind |-> "banner", what |-> tier],
      [kind |-> "recommendation", what |-> tier],
      [kind |-> "recommendation", what |-> tier],
      [kind |-> "recommendation", what |-> tier]>>

(***************************************************************************)
(* Attribution (lines 145-212).                                            *)
(***************************************************************************)
\* What a TreeExplainer gives for one row of n columns.  Class 1 is the
\* frail class; its baseline and contributions are the negation of class
\* 0's, so the two are told apart by sign.  expected_value is a float or
\* an array with an entry per output; shap_values is one array (a row per
\* sample) or a list with an array per class.
Baseline(class) == IF class = 1 THEN 2 ELSE -2

Contributions(class, n) == [i \in 1..n |-> IF class = 1 THEN i ELSE -i]

ExpectedValueShapes == {"float", "ndarray1", "ndarray2"}
ShapValuesShapes == {"ndarray", "list1", "list2"}

ExplainerExpectedValue(shape) ==
    CASE shape = "float"    -> [kind |-> "float",   vals |-> <<Baseline(1)>>]
      [] shape = "ndarray1" -> [kind |-> "ndarray", vals |-> <<Baseline(1)>>]
      [] shape = "ndarray2" -> [kind |-> "ndarray", vals |-> <<Baseline(0), Baseline(1)>>]

ExplainerShapValues(shape, n) ==
    CASE shape = "ndarray" -> [kind |-> "ndarray", vals |-> <<Contributions(1, n)>>]
      [] shape = "list1"   -> [kind |-> "list",    vals |-> <<Contributions(1, n)>>]
      [] shape = "list2"   -> [kind |-> "list",    vals |-> <<Contributions(0, n), Contributions(1, n)>>]

Unset == [kind |-> "unset", vals |-> <<>>]

\* Python index i of a sequence; IndexError when there is no such entry.
HasIndex(q, i) == i + 1 \in DOMAIN q
AtIndex(q, i) == q[i + 1]

\* Lines 149-157 raise IndexError exactly when an array or a list has no index 1.
SelectionRaises(ev, sv) ==
    \/ ev.kind = "ndarray" /\ ~HasIndex(ev.vals, 1)
    \/ sv.kind = "list" /\ ~HasIndex(sv.vals, 1)

\* expected_value[1] if it is an array, float(expected_value) otherwise
SelectExpectedValue(ev) ==
    IF ev.kind = "ndarray" THEN AtIndex(ev.vals, 1) ELSE AtIndex(ev.vals, 0)

\* shap_values[1][0] if it is a list, shap_values[0] otherwise
SelectShapValue(sv) ==
    IF sv.kind = "list" THEN AtIndex(sv.vals, 1) ELSE AtIndex(sv.vals, 0)

\* A label: its text and, for "name=value" labels, the value shown (-1: none).
Text(t) == [text |-> t, shown |-> -1]
ValueLabel(t, v) == [text |-> t, shown |-> v]

\* int(age) and {platelet}: the inputs are integers already.
FormatInt(x) == x
\* {x:.1f}: hundredths to the nearest tenth (no input here ends in 5).
FormatOneDecimal(x) == (x + 5) \div 10

ChooseLabelSwapped(cond, yes, no) == IF cond THEN no ELSE yes

\* '<yes>' if <cond> else '<no>'
ChooseLabel(cond, yes, no) == IF cond THEN yes ELSE no

LabelKeys ==
    {"age", "bmi2015", "bl_wbc", "bl_crea", "bl_plt", "bl_cysc", "Complications_0",
     "Complications_1", "Complications_2", "FTSST", "Walking_speed", "fall", "ADL",
     "gender", "PA_high", "PA_medium", "PA_low", "smoking"}

feature_names_mapping(f) ==
    [age             |-> ValueLabel("Age=", FormatInt(f.age)),
     bmi2015         |-> ValueLabel("BMI=", FormatOneDecimal(f.bmi)),
     bl_wbc          |-> ValueLabel("WBC=", FormatOneDecimal(f.wbc)),
     bl_crea         |-> ValueLabel("Crea=", FormatOneDecimal(f.crea)),
     bl_plt          |-> ValueLabel("Plt=", FormatInt(f.platelet)),
     bl_cysc         |-> ValueLabel("CysC=", FormatOneDecimal(f.cysc)),
     Complications_0 |-> Text(ChooseLabel(f.complication = "none", "no complication", "")),
     Complications_1 |-> Text(ChooseLabel(f.complication = "one", "1 complication", "")),
     Complications_2 |-> Text(ChooseLabel(f.complication = "two_or_more", ">=2 complications", "")),
     FTSST           |-> Text(ChooseLabel(f.sit_stand = "ge_12s", "FTSST>=12s", "FTSST<12s")),
     Walking_speed   |-> Text(ChooseLabel(f.walk_speed = "ge_1mps", "WalkSpeed>=1m/s", "WalkSpeed<1m/s")),
     fall            |-> Text(ChooseLabel(f.fall = "yes", "fall: yes", "fall: no")),
     ADL             |-> Text(ChooseLabel(f.daily_activity = "limited", "ADL limited", "ADL normal")),
     gender          |-> Text(ChooseLabel(f.gender = "female", "gender: female", "gender: male")),
     PA_high         |-> Text(ChooseLabel(f.activity = "high", "activity: high", "")),
     PA_medium       |-> Text(ChooseLabel(f.activity = "medium", "activity: medium", "")),
     PA_low          |-> Text(ChooseLabel(f.activity = "low", "activity: low", "")),
     smoking         |-> Text(ChooseLabel(f.smoking = "yes", "smoking: yes", "smoking: no"))]

\* feature_names_mapping.get(col, col); an empty label stays "" as a placeholder.
DisplayFeatureNames(df, f) ==
    [i \in DOMAIN df |->
        IF df[i].name \in LabelKeys THEN feature_names_mapping(f)[df[i].name]
        ELSE Text(df[i].name)]

(***************************************************************************)
(* The files the script reads, and the inputs of a run.                    *)
(***************************************************************************)
\* Feature names a schema may hold: the encoder's keys, the label table's
\* bmi2015, and a name neither knows.
FeatureUniverse == Range(InputKeys) \cup {"bmi2015", "edu"}

RECURSIVE SeqsUpTo(_, _)
SeqsUpTo(S, n) ==
    IF n = 0 THEN {<<>>}
    ELSE LET shorter == SeqsUpTo(S, n - 1)
         IN  shorter \cup {Append(q, x) : q \in shorter, x \in S}

Schemas == SeqsUpTo(FeatureUniverse, MaxSchemaLen)

\* A schema naming every feature once: bmi2015 first, then the encoder's
\* keys from the last to the first, then edu.
FullSchema ==
    <<"bmi2015">> \o [i \in 1..Len(InputKeys) |-> InputKeys[Len(InputKeys) + 1 - i]] \o <<"edu">>

ModelFile(p, ev, sv) == [prob |-> p, ev |-> ev, sv |-> sv]

\* An XGBoost booster under TreeExplainer: a float baseline, one array.
DefaultModelFile == ModelFile(5000001, "float", "ndarray")

ModelFiles ==
    {ModelFile(p, ev, sv) : p \in Probabilities, ev \in ExpectedValueShapes, sv \in ShapValuesShapes}

(***************************************************************************)
(* st.cache_resource (lines 48, 59): one entry per decorated function,     *)
(* computed under the entry's lock by the first caller that misses.        *)
(***************************************************************************)
CachedFunctions == {"load_model_and_features", "create_explainer"}

CacheReadAlwaysMisses(f) == 0

\* The entry of f, 0 when there is none.
CacheRead(f) == cache[f]

Item(kind, what) == [kind |-> kind, what |-> what]

NoInputData == [k \in {} |-> 0]

\* A run's locals before the run assigns them.
ResetLocals(s) ==
    /\ input_data' = [input_data EXCEPT ![s] = NoInputData]
    /\ input_df' = [input_df EXCEPT ![s] = <<>>]
    /\ frail_prob' = [frail_prob EXCEPT ![s] = -1]
    /\ pred_label' = [pred_label EXCEPT ![s] = -1]
    /\ shap_values' = [shap_values EXCEPT ![s] = Unset]
    /\ expected_value' = [expected_value EXCEPT ![s] = Unset]
    /\ shap_value' = [shap_value EXCEPT ![s] = <<>>]
    /\ display_feature_names' = [display_feature_names EXCEPT ![s] = <<>>]

files == <<xgb_model2_json, feature_names_pkl>>
shared == <<cache, lock, loaded, explainers>>
globals == <<model, feature_names, explainer>>
locals == <<input_data, input_df, frail_prob, pred_label, shap_values,
            expected_value, shap_value, display_feature_names>>

\* The start of every specification: the sessions of `active` have opened the
\* page and nothing is cached.
InitWith(active, schemas, forms, modelFiles) ==
    /\ xgb_model2_json \in modelFiles
    /\ feature_names_pkl \in schemas
    /\ cache = [f \in CachedFunctions |-> 0]
    /\ lock = [f \in CachedFunctions |-> 0]
    /\ loaded = <<>>
    /\ explainers = <<>>
    /\ pc = [s \in Sessions |-> IF s \in active THEN "call" ELSE "closed"]
    /\ fn = [s \in Sessions |-> "load_model_and_features"]
    /\ model = [s \in Sessions |-> 0]
    /\ feature_names = [s \in Sessions |-> 0]
    /\ explainer = [s \in Sessions |-> 0]
    /\ \E f \in forms : form = [s \in Sessions |-> f]
    /\ submitted = [s \in Sessions |-> FALSE]
    /\ input_data = [s \in Sessions |-> NoInputData]
    /\ input_df = [s \in Sessions |-> <<>>]
    /\ frail_prob = [s \in Sessions |-> -1]
    /\ pred_label = [s \in Sessions |-> -1]
    /\ shap_values = [s \in Sessions |-> Unset]
    /\ expected_value = [s \in Sessions |-> Unset]
    /\ shap_value = [s \in Sessions |-> <<>>]
    /\ display_feature_names = [s \in Sessions |-> <<>>]
    /\ out = [s \in Sessions |-> <<Item("title", "")>>]

\* Lines 56 and 63: bind the script's globals to what the call returned, and
\* go on to the next statement.
Return(s, id) ==
    IF fn[s] = "load_model_and_features"
    THEN /\ model' = [model EXCEPT ![s] = id]
         /\ feature_names' = [feature_names EXCEPT ![s] = id]
         /\ UNCHANGED explainer
         /\ fn' = [fn EXCEPT ![s] = "create_explainer"]
         /\ pc' = [pc EXCEPT ![s] = "call"]
    ELSE /\ explainer' = [explainer EXCEPT ![s] = id]
         /\ UNCHANGED <<model, feature_names>>
         /\ fn' = [fn EXCEPT ![s] = "load_model_and_features"]
         /\ pc' = [pc EXCEPT ![s] = "form"]

\* A call of a cached function: a hit returns the entry, a miss goes for the lock.
Call(s) ==
    /\ pc[s] = "call"
    /\ IF CacheRead(fn[s]) # 0
       THEN Return(s, CacheRead(fn[s]))
       ELSE /\ pc' = [pc EXCEPT ![s] = "lock"]
            /\ UNCHANGED <<fn, globals>>
    /\ UNCHANGED <<files, shared, form, submitted, locals, out>>

AcquireLock(s) ==
    /\ pc[s] = "lock"
    /\ lock[fn[s]] = 0
    /\ lock' = [lock EXCEPT ![fn[s]] = s]
    /\ pc' = [pc EXCEPT ![s] = "check"]
    /\ UNCHANGED <<files, cache, loaded, explainers, fn, globals, form, submitted, locals, out>>

\* Under the lock the entry is read again: another session may have stored it.
CheckAgain(s) ==
    /\ pc[s] = "check"
    /\ IF CacheRead(fn[s]) # 0
       THEN /\ lock' = [lock EXCEPT ![fn[s]] = 0]
            /\ Return(s, CacheRead(fn[s]))
       ELSE /\ pc' = [pc EXCEPT ![s] = "build"]
            /\ UNCHANGED <<lock, fn, globals>>
    /\ UNCHANGED <<files, cache, loaded, explainers, form, submitted, locals, out>>

\* The decorated function's body: lines 50-54, or line 61.
Build(s) ==
    /\ pc[s] = "build"
    /\ IF fn[s] = "load_model_and_features"
       THEN /\ loaded' = Append(loaded, [model |-> xgb_model2_json,
                                         feature_names |-> feature_names_pkl])
            /\ UNCHANGED explainers
       ELSE /\ explainers' = Append(explainers, [model |-> model[s]])
            /\ UNCHANGED loaded
    /\ pc' = [pc EXCEPT ![s] = "store"]
    /\ UNCHANGED <<files, cache, lock, fn, globals, form, submitted, locals, out>>

\* The value just built is stored, the lock released, the value returned.
Store(s) ==
    /\ pc[s] = "store"
    /\ LET id == IF fn[s] = "load_model_and_features" THEN Len(loaded) ELSE Len(explainers)
       IN  /\ cache' = [cache EXCEPT ![fn[s]] = id]
           /\ lock' = [lock EXCEPT ![fn[s]] = 0]
           /\ Return(s, id)
    /\ UNCHANGED <<files, loaded, explainers, form, submitted, locals, out>>

\* Lines 66-88: the form is drawn; a run that a submit started goes on to
\* the evaluation, any other run to the footer.
Form(s) ==
    /\ pc[s] = "form"
    /\ out' = [out EXCEPT ![s] = Append(@, Item("form", ""))]
    /\ pc' = [pc EXCEPT ![s] = IF submitted[s] THEN "encode" ELSE "footer"]
    /\ UNCHANGED <<files, shared, fn, globals, form, submitted, locals>>

\* The shared feature list a session's feature_names refers to.
Schema(s) == loaded[feature_names[s]].feature_names

\* Lines 91-117.
EncodeInput(s) ==
    /\ pc[s] = "encode"
    /\ input_data' = [input_data EXCEPT ![s] = InputData(form[s])]
    /\ input_df' = [input_df EXCEPT ![s] = Encode(form[s], Schema(s))]
    /\ pc' = [pc EXCEPT ![s] = "score"]
    /\ UNCHANGED <<files, shared, fn, globals, form, submitted, frail_prob, pred_label,
                   shap_values, expected_value, shap_value, display_feature_names, out>>

\* Lines 120-123.
Score(s) ==
    /\ pc[s] = "score"
    /\ frail_prob' = [frail_prob EXCEPT ![s] = loaded[model[s]].model.prob]
    /\ pred_label' = [pred_label EXCEPT ![s] = PredLabel(loaded[model[s]].model.prob)]
    /\ pc' = [pc EXCEPT ![s] = "result"]
    /\ UNCHANGED <<files, shared, fn, globals, form, submitted, input_data, input_df,
                   shap_values, expected_value, shap_value, display_feature_names, out>>

\* xgb.DMatrix or model.predict raises (the booster rejects the frame): no
\* handler is in scope, the run ends with the exception on the page.
ScoreRaises(s) ==
    /\ pc[s] = "score"
    /\ out' = [out EXCEPT ![s] = Append(@, Item("exception", ""))]
    /\ pc' = [pc EXCEPT ![s] = "crashed"]
    /\ UNCHANGED <<files, shared, fn, globals, form, submitted, locals>>

\* Line 126.
ShowResult(s) ==
    /\ pc[s] = "result"
    /\ out' = [out EXCEPT ![s] = Append(@, Item("probability", ""))]
    /\ pc' = [pc EXCEPT ![s] = "tier"]
    /\ UNCHANGED <<files, shared, fn, globals, form, submitted, locals>>

\* Lines 128-142.
ShowTier(s) ==
    /\ pc[s] = "tier"
    /\ out' = [out EXCEPT ![s] = @ \o TierOutput(Stratify(frail_prob[s]))]
    /\ pc' = [pc EXCEPT ![s] = "explain"]
    /\ UNCHANGED <<files, shared, fn, globals, form, submitted, locals>>

\* The statements of the try block (lines 145-208), by where a run is.
TryBlock == {"explain", "select", "labels", "plot", "save"}

HandlerPropagates(s) == "crashed"

\* Where an exception raised in the try block goes: except Exception (line 210).
Handler(s) == "except"

\* Lines 147-148.
Explain(s) ==
    /\ pc[s] = "explain"
    /\ LET file == loaded[explainers[explainer[s]].model].model
       IN  /\ shap_values' = [shap_values EXCEPT ![s] =
                                 ExplainerShapValues(file.sv, Len(input_df[s]))]
           /\ expected_value' = [expected_value EXCEPT ![s] = ExplainerExpectedValue(file.ev)]
    /\ pc' = [pc EXCEPT ![s] = "select"]
    /\ UNCHANGED <<files, shared, fn, globals, form, submitted, input_data, input_df,
                   frail_prob, pred_label, shap_value, display_feature_names, out>>

\* Lines 149-157; an IndexError goes to the handler.
SelectClass(s) ==
    /\ pc[s] = "select"
    /\ IF SelectionRaises(expected_value[s], shap_values[s])
       THEN /\ pc' = [pc EXCEPT ![s] = Handler(s)]
            /\ UNCHANGED <<expected_value, shap_value>>
       ELSE /\ expected_value' = [expected_value EXCEPT ![s] =
                    [kind |-> "float", vals |-> <<SelectExpectedValue(expected_value[s])>>]]
            /\ shap_value' = [shap_value EXCEPT ![s] = SelectShapValue(shap_values[s])]
            /\ pc' = [pc EXCEPT ![s] = "labels"]
    /\ UNCHANGED <<files, shared, fn, globals, form, submitted, input_data, input_df,
                   frail_prob, pred_label, shap_values, display_feature_names, out>>

\* Lines 160-189.
BuildLabels(s) ==
    /\ pc[s] = "labels"
    /\ display_feature_names' = [display_feature_names EXCEPT ![s] =
                                    DisplayFeatureNames(input_df[s], form[s])]
    /\ pc' = [pc EXCEPT ![s] = "plot"]
    /\ UNCHANGED <<files, shared, fn, globals, form, submitted, input_data, input_df,
                   frail_prob, pred_label, shap_values, expected_value, shap_value, out>>

\* Lines 191-202: the header names the predicted class, then the plot is drawn.
Plot(s) ==
    /\ pc[s] = "plot"
    /\ out' = [out EXCEPT ![s] =
                  Append(@, Item("header", IF pred_label[s] = 1 THEN "frail" ELSE "not frail"))]
    /\ pc' = [pc EXCEPT ![s] = "save"]
    /\ UNCHANGED <<files, shared, fn, globals, form, submitted, locals>>

\* Lines 205-208.
SaveImage(s) ==
    /\ pc[s] = "save"
    /\ out' = [out EXCEPT ![s] = Append(@, Item("image", ""))]
    /\ pc' = [pc EXCEPT ![s] = "legend"]
    /\ UNCHANGED <<files, shared, fn, globals, form, submitted, locals>>

\* A statement of the try block raises: the explainer, the label table, the
\* plot, the image file.
Raise(s) ==
    /\ pc[s] \in TryBlock
    /\ pc' = [pc EXCEPT ![s] = Handler(s)]
    /\ UNCHANGED <<files, shared, fn, globals, form, submitted, locals, out>>

\* Lines 211-212.
Except(s) ==
    /\ pc[s] = "except"
    /\ out' = [out EXCEPT ![s] = @ \o <<Item("error", "explanation failed"),
                                        Item("warning", "refresh or check the input")>>]
    /\ pc' = [pc EXCEPT ![s] = "legend"]
    /\ UNCHANGED <<files, shared, fn, globals, form, submitted, locals>>

\* Lines 214-218.
Legend(s) ==
    /\ pc[s] = "legend"
    /\ out' = [out EXCEPT ![s] = Append(@, Item("legend", ""))]
    /\ pc' = [pc EXCEPT ![s] = "footer"]
    /\ UNCHANGED <<files, shared, fn, globals, form, submitted, locals>>

\* Lines 221-222: the run ends.
Footer(s) ==
    /\ pc[s] = "footer"
    /\ out' = [out EXCEPT ![s] = Append(@, Item("footer", ""))]
    /\ pc' = [pc EXCEPT ![s] = "idle"]
    /\ UNCHANGED <<files, shared, fn, globals, form, submitted, locals>>

\* The user presses the button (line 85): the script runs again from the
\* top, with a fresh page and submitted = True.
Submit(s) ==
    /\ pc[s] \in {"idle", "crashed"}
    /\ submitted' = [submitted EXCEPT ![s] = TRUE]
    /\ out' = [out EXCEPT ![s] = <<Item("title", "")>>]
    /\ pc' = [pc EXCEPT ![s] = "call"]
    /\ ResetLocals(s)
    /\ UNCHANGED <<files, shared, fn, globals, form>>

Next ==
    \E s \in Sessions :
        \/ Call(s)
        \/ AcquireLock(s)
        \/ CheckAgain(s)
        \/ Build(s)
        \/ Store(s)
        \/ Form(s)
        \/ EncodeInput(s)
        \/ Score(s)
        \/ ScoreRaises(s)
        \/ ShowResult(s)
        \/ ShowTier(s)
        \/ Explain(s)
        \/ SelectClass(s)
        \/ BuildLabels(s)
        \/ Plot(s)
        \/ SaveImage(s)
        \/ Raise(s)
        \/ Except(s)
        \/ Legend(s)
        \/ Footer(s)
        \/ Submit(s)

\* One user; every schema up to MaxSchemaLen names; three patients.
Init == InitWith({1}, Schemas, FormProfiles, {DefaultModelFile})
Spec == Init /\ [][Next]_vars

\* One user; the full schema; every patient.
InitForms == InitWith({1}, {FullSchema}, AllForms, {DefaultModelFile})
SpecForms == InitForms /\ [][Next]_vars

\* One user; every answer of the scorer and every shape of the explainer.
InitModels == InitWith({1}, {FullSchema, <<>>}, {DefaultForm}, ModelFiles)
SpecModels == InitModels /\ [][Next]_vars

\* Every session opens the page at once.
InitSessions == InitWith(Sessions, {FullSchema}, {DefaultForm}, {DefaultModelFile})
SpecSessions == InitSessions /\ [][Next]_vars

(***************************************************************************)
(* Properties.                                                             *)
(***************************************************************************)
\* Where a run that a submit started is once lines 91-117 have run.
AfterEncode ==
    {"score", "result", "tier", "explain", "select", "labels", "plot", "save",
     "except", "legend", "footer", "idle", "crashed"}
Encoded(s) == submitted[s] /\ pc[s] \in AfterEncode

\* ... once line 123 has run.
Scored(s) == submitted[s] /\ pc[s] \in AfterEncode \ {"score", "crashed"}

\* ... once the banner and the recommendations are on the page.
Tiered(s) == submitted[s] /\ pc[s] \in AfterEncode \ {"score", "crashed", "result", "tier"}

\* ... once lines 149-157 have picked the baseline and the contributions.
Selected(s) == pc[s] \in {"labels", "plot", "save"}

\* ... once display_feature_names is built.
Labelled(s) == pc[s] \in {"plot", "save"}

Shown(s, kind) == {out[s][i].what : i \in {j \in DOMAIN out[s] : out[s][j].kind = kind}}
Position(s, kind) == {i \in DOMAIN out[s] : out[s][i].kind = kind}

HasDuplicates(q) == \E i, j \in DOMAIN q : i # j /\ q[i] = q[j]

\* C1: the encoded feature vector has exactly len(schema) columns, its i-th
\* column is the one named schema[i], and an encoder key that is not in the
\* schema is no column of it.
C1_VectorFollowsSchema ==
    \A s \in Sessions :
        Encoded(s) =>
            /\ Len(input_df[s]) = Len(Schema(s))
            /\ \A i \in 1..Len(Schema(s)) : input_df[s][i].name = Schema(s)[i]
            /\ \A k \in Range(InputKeys) \ Range(Schema(s)) : k \notin Columns(input_df[s])

\* A schema of two encoder keys in the opposite of the encoder's order.
C1_Witness ==
    \E s \in Sessions :
        /\ Encoded(s)
        /\ Schema(s) = <<"bl_wbc", "gender">>
        /\ input_data[s]["bl_wbc"] # 0

TierRank(tier) == CASE tier = "LOW" -> 0 [] tier = "MEDIUM" -> 1 [] tier = "HIGH" -> 2

\* C2: p > 0.8 gives HIGH, 0.3 < p <= 0.8 gives MEDIUM, p <= 0.3 gives LOW,
\* one tier only; 0.8 is MEDIUM and 0.3 is LOW; the tier never goes down as p
\* goes up.
C2_TierBoundaries ==
    /\ \A s \in Sessions :
          Tiered(s) =>
              LET p == frail_prob[s]
              IN  /\ Cardinality(Position(s, "banner")) = 1
                  /\ p > 8000000 => Shown(s, "banner") = {"HIGH"}
                  /\ (p > 3000000 /\ p <= 8000000) => Shown(s, "banner") = {"MEDIUM"}
                  /\ p <= 3000000 => Shown(s, "banner") = {"LOW"}
                  /\ Shown(s, "recommendation") = Shown(s, "banner")
    /\ \A p, q \in Probabilities :
          p <= q => TierRank(Stratify(p)) <= TierRank(Stratify(q))

\* The banner is up for a probability of exactly 0.8.
C2_Witness ==
    \E s \in Sessions : Tiered(s) /\ frail_prob[s] = 8000000

\* C3: when the explainer gives a baseline and a contribution array per
\* class, the attribution uses the ones at index predicted_label.
C3_SelectsPredictedClass ==
    \A s \in Sessions :
        Selected(s) =>
            LET file == loaded[model[s]].model
            IN  /\ file.ev = "ndarray2" =>
                      expected_value[s].vals = <<Baseline(pred_label[s])>>
                /\ file.sv = "list2" =>
                      shap_value[s] = Contributions(pred_label[s], Len(input_df[s]))

\* C4: once scoring has succeeded, a failure of the attribution stage does
\* not take the probability or the tier off the page, does not end the run
\* with an exception, is reported as an error on the page, and the run goes
\* on to its end.
C4_AttributionFailureContained ==
    \A s \in Sessions :
        /\ (submitted[s] /\ pc[s] \in TryBlock \cup {"except", "legend", "footer", "idle"}) =>
              /\ Position(s, "probability") # {}
              /\ Position(s, "banner") # {}
              /\ Shown(s, "recommendation") = Shown(s, "banner")
        /\ \A e \in Position(s, "error") :
              /\ \E i \in Position(s, "probability") : i < e
              /\ \E i \in Position(s, "banner") : i < e
        /\ pc[s] = "crashed" => Position(s, "probability") = {}
        /\ pc[s] = "except" => ENABLED Except(s)
        /\ (submitted[s] /\ pc[s] \in {"legend", "footer", "idle"}) =>
              (Position(s, "image") # {} \/ Position(s, "error") # {})
        /\ pc[s] = "legend" => ENABLED Legend(s)
        /\ pc[s] = "footer" => ENABLED Footer(s)

\* A run that failed in the attribution stage has ended, with the
\* probability, the tier and the error on the page.
C4_Witness ==
    \E s \in Sessions :
        /\ submitted[s] /\ pc[s] = "idle"
        /\ Position(s, "error") # {}
        /\ Position(s, "probability") # {}
        /\ Position(s, "image") = {}

ActivityIndicator(option) ==
    CASE option = "low" -> "PA_low" [] option = "medium" -> "PA_medium" [] option = "high" -> "PA_high"

ComplicationIndicator(option) ==
    CASE option = "none" -> "Complications_0" [] option = "one" -> "Complications_1"
      [] option = "two_or_more" -> "Complications_2"

ExactlyOne(d, group, selected) ==
    /\ \A k \in group : d[k] \in {0, 1}
    /\ {k \in group : d[k] = 1} = {selected}

\* C5: in PA_low/PA_medium/PA_high and in Complications_0/_1/_2 exactly one
\* indicator is 1, the others are 0, and the 1 is the selected option's.
C5_OneHotGroups ==
    \A s \in Sessions :
        Encoded(s) =>
            /\ ExactlyOne(input_data[s], {"PA_low", "PA_medium", "PA_high"},
                          ActivityIndicator(form[s].activity))
            /\ ExactlyOne(input_data[s], {"Complications_0", "Complications_1", "Complications_2"},
                          ComplicationIndicator(form[s].complication))

C5_Witness ==
    \E s \in Sessions :
        Encoded(s) /\ form[s].activity = "medium" /\ form[s].complication = "two_or_more"

\* C6: a schema name the encoder computes no key for is 0 in the vector; a
\* schema name it computes carries the computed value.
C6_ZeroFillOnlyMissing ==
    \A s \in Sessions :
        Encoded(s) =>
            \A i \in DOMAIN input_df[s] :
                LET col == input_df[s][i]
                IN  IF col.name \in Range(InputKeys)
                    THEN col.val = input_data[s][col.name]
                    ELSE col.val = 0

\* A schema with a name of each sort, the computed one not 0.
C6_Witness ==
    \E s \in Sessions :
        /\ Encoded(s)
        /\ Schema(s) = <<"bmi2015", "bmi">>
        /\ input_df[s][2].val = 2734

\* C7: with an empty schema, or one that names a feature twice, encoding
\* fails: no feature vector is produced and no score is computed.
C7_BadSchemaRejected ==
    \A s \in Sessions :
        (feature_names[s] # 0 /\ (Schema(s) = <<>> \/ HasDuplicates(Schema(s)))) =>
            ~Encoded(s)

BooleanFields == {"gender", "smoking", "fall", "ADL", "Walking_speed", "FTSST"}

LabelOfOne(name) ==
    CASE name = "gender" -> "gender: female"
      [] name = "smoking" -> "smoking: yes"
      [] name = "fall" -> "fall: yes"
      [] name = "ADL" -> "ADL limited"
      [] name = "Walking_speed" -> "WalkSpeed>=1m/s"
      [] name = "FTSST" -> "FTSST>=12s"

LabelOfZero(name) ==
    CASE name = "gender" -> "gender: male"
      [] name = "smoking" -> "smoking: no"
      [] name = "fall" -> "fall: no"
      [] name = "ADL" -> "ADL normal"
      [] name = "Walking_speed" -> "WalkSpeed<1m/s"
      [] name = "FTSST" -> "FTSST<12s"

\* C9: for gender, smoking, fall, ADL, Walking_speed and FTSST the label
\* names the option the encoder maps to 1 exactly when the encoded value is
\* 1, and the other option exactly when it is 0.
C9_LabelAgreesWithValue ==
    \A s \in Sessions :
        Labelled(s) =>
            \A i \in DOMAIN input_df[s] :
                input_df[s][i].name \in BooleanFields =>
                    LET name == input_df[s][i].name
                        val == input_df[s][i].val
                        text == display_feature_names[s][i].text
                    IN  /\ val \in {0, 1}
                        /\ val = 1 <=> text = LabelOfOne(name)
                        /\ val = 0 <=> text = LabelOfZero(name)

\* Every boolean field is a column, three of them at 1 and three at 0.
C9_Witness ==
    \E s \in Sessions :
        /\ Labelled(s)
        /\ BooleanFields \subseteq Columns(input_df[s])
        /\ input_data[s]["Walking_speed"] = 1 /\ input_data[s]["gender"] = 0
        /\ input_data[s]["fall"] = 1 /\ input_data[s]["smoking"] = 0
        /\ input_data[s]["FTSST"] = 1 /\ input_data[s]["ADL"] = 0

ValueLabelKeys == {"age", "bmi2015", "bl_wbc", "bl_crea", "bl_plt", "bl_cysc"}
NumericInputKeys == {"age", "bmi", "bl_plt", "bl_crea", "bl_cysc", "bl_wbc"}

ShownValue(name, val) ==
    IF name \in {"age", "bl_plt"} THEN FormatInt(val) ELSE FormatOneDecimal(val)

\* C10: a column whose label shows a patient value (the label table's age,
\* bmi2015, bl_wbc, bl_crea, bl_plt, bl_cysc) carries that value in the
\* vector, and a numeric input the encoder computes is not shown under its
\* raw identifier.
C10_LabelledValueIsScoredValue ==
    \A s \in Sessions :
        Labelled(s) =>
            \A i \in DOMAIN input_df[s] :
                LET col == input_df[s][i]
                    label == display_feature_names[s][i]
                IN  /\ col.name \in ValueLabelKeys => label.shown = ShownValue(col.name, col.val)
                    /\ col.name \in NumericInputKeys => label.text # col.name

====
